---- MODULE Spec2Model ----
(***************************************************************************)
(* GreenPoints API (src/main.py, src/schemas.py): the request handlers of  *)
(* the points-and-badges tracker over a document store holding the         *)
(* "activity" and "badge" collections.                                     *)
(*                                                                         *)
(* Each handler is one action.  `request` records the call and the fault   *)
(* the store injects into it, `response` what the handler hands back to    *)
(* the framework: a value, an HTTPException, or an exception it lets       *)
(* escape.  `db` is whether the store is connected (the handlers' `if db`).*)
(* GET /test, a diagnostic of the environment, is left out.                *)
(***************************************************************************)
EXTENDS Integers, Sequences, FiniteSets, TLC

VARIABLES db, activity, badge, request, response

vars == <<db, activity, badge, request, response>>

-----------------------------------------------------------------------------
(* Bounds of the model *)

\* Spec accepts a writing call while the activity collection holds fewer records
MaxActs == 2
\* SpecWrites accepts a writing call while the activity collection holds fewer records
MaxWrites == 1

-----------------------------------------------------------------------------
(* Values *)

\* Python's None
None == "None"

\* default of the leaderboard's limit parameter
LeaderboardLimit == 10
\* default of list_activities' limit parameter
ActivitiesLimit == 50

\* str(e) of an exception raised by a store call
StoreError == "store error"

Users == {"neo", "trinity"}

POINTS_TABLE ==
    [t \in {"public_transport", "vegan_meal", "recycling", "bike_ride",
            "refill", "thrift", "tree_planting"} |->
        CASE t = "public_transport" -> 15
          [] t = "vegan_meal"       -> 10
          [] t = "recycling"        -> 8
          [] t = "bike_ride"        -> 12
          [] t = "refill"           -> 6
          [] t = "thrift"           -> 14
          [] t = "tree_planting"    -> 50]

\* request body of POST /api/activities
ActivityCreate(username, activity_type, quantity, notes) ==
    [username |-> username, activity_type |-> activity_type,
     quantity |-> quantity, notes |-> notes]

\* Python's max(a, b) on integers
max(a, b) == IF a >= b THEN a ELSE b

\* an ObjectId of the store, and str() of it
ObjectId(n) == [oid |-> n]

isObjectId(x) == DOMAIN x = {"oid"}

str(x) == ToString(x.oid)

-----------------------------------------------------------------------------
(* What a handler hands back *)

Ok(body) == [kind |-> "ok", status |-> 200, detail |-> None, body |-> body]

HTTPException(status_code, detail) ==
    [kind |-> "HTTPException", status |-> status_code, detail |-> detail,
     body |-> None]

\* an exception the handler does not catch: it leaves the handler as it is,
\* no status chosen by the service
Uncaught(e) == [kind |-> "Exception", status |-> 0, detail |-> e, body |-> None]

-----------------------------------------------------------------------------
(* The document store: insert-one and find-many over a collection kept in  *)
(* insertion order.  `n` is the index of the store call within the request *)
(* being served and `fault` the index of the call that raises (0: none).   *)

\* whether the n-th store call of the request raises
Raises(n, fault) == ~db \/ n = fault

create_document(coll, doc, n, fault) ==
    IF Raises(n, fault)
    THEN [raised |-> TRUE, coll |-> coll, id |-> None]
    ELSE LET oid == ObjectId(Len(coll) + 1)
         IN [raised |-> FALSE,
             coll   |-> Append(coll, [_id |-> oid] @@ doc),
             id     |-> str(oid)]

\* a document matches a filter when it agrees with it on every key of the filter
Matches(doc, filt) == \A k \in DOMAIN filt : doc[k] = filt[k]

\* limit=None of get_documents: no cap
NoLimit == 0

\* the first n elements of a sequence (all of it when there is no limit)
Take(s, n) == IF n = NoLimit \/ n >= Len(s) THEN s ELSE SubSeq(s, 1, n)

find(coll, filt) == SelectSeq(coll, LAMBDA d : Matches(d, filt))

get_documents(coll, filt, limit, n, fault) ==
    IF Raises(n, fault)
    THEN [raised |-> TRUE, docs |-> <<>>]
    ELSE [raised |-> FALSE, docs |-> Take(find(coll, filt), limit)]

\* sum of the points of the documents of a sequence ($sum: "$points")
RECURSIVE SumPoints(_)
SumPoints(docs) ==
    IF docs = <<>> THEN 0 ELSE Head(docs).points + SumPoints(Tail(docs))

\* variant: a pipeline without its $match stage
MatchStageAll(docs, username) == docs

\* {"$match": {"username": username}}
MatchStage(docs, username) == find(docs, [username |-> username])

\* {"$group": {"_id": "$username", "points": {"$sum": "$points"}, "count": {"$sum": 1}}}:
\* one row per distinct username, in no particular order
GroupStage(docs) ==
    { [_id    |-> u,
       points |-> SumPoints(find(docs, [username |-> u])),
       count  |-> Len(find(docs, [username |-> u]))] :
      u \in { docs[i].username : i \in DOMAIN docs } }

\* the rows of a stage that fixes no order, as a list: any arrangement
AnyOrder(rows) ==
    { s \in [1..Cardinality(rows) -> rows] :
        \A i, j \in DOMAIN s : i # j => s[i] # s[j] }

\* variant: {"$sort": {"points": 1}}
SortStageAscending(rows) ==
    { s \in AnyOrder(rows) :
        \A i, j \in DOMAIN s : i < j => s[i].points <= s[j].points }

\* {"$sort": {"points": -1}}: the rows by descending points; the order among
\* equal points is the store's choice
SortStage(rows) ==
    { s \in AnyOrder(rows) :
        \A i, j \in DOMAIN s : i < j => s[i].points >= s[j].points }

\* {"$limit": limit}
LimitStage(s, limit) == Take(s, limit)

-----------------------------------------------------------------------------
(* POST /api/activities *)

\* the Activity(...) built by log_activity
Activity(payload, total_points) ==
    [username      |-> payload.username,
     activity_type |-> payload.activity_type,
     quantity      |-> max(1, payload.quantity),
     points        |-> total_points,
     notes         |-> payload.notes]

\* the field constraints of schemas.Activity
ActivityValid(a) ==
    /\ a.activity_type \in {"public_transport", "vegan_meal", "recycling",
                            "bike_ride", "refill", "thrift", "tree_planting"}
    /\ a.quantity >= 1
    /\ a.points >= 0

\* Badge(username=payload.username, **b)
Badge(username, b) == [username |-> username] @@ b

\* variant: the quantity taken as given
total_points_unclamped(payload) ==
    POINTS_TABLE[payload.activity_type] * payload.quantity

total_points(payload) ==
    POINTS_TABLE[payload.activity_type] * max(1, payload.quantity)

PLANT_POWER ==
    [badge_key |-> "plant_power", name |-> "Plant Power",
     description |-> "Logged 3+ vegan meals in one go!", icon |-> "leaf"]

BIG_IMPACT ==
    [badge_key |-> "big_impact", name |-> "Big Impact",
     description |-> "Scored 50+ points from one action", icon |-> "zap"]

\* variant: big_impact above 50 points only
maybe_badges_strict(payload, total) ==
    (IF payload.activity_type = "vegan_meal" /\ payload.quantity >= 3
     THEN <<PLANT_POWER>> ELSE <<>>)
    \o (IF total > 50 THEN <<BIG_IMPACT>> ELSE <<>>)

maybe_badges(payload, total) ==
    (IF payload.activity_type = "vegan_meal" /\ payload.quantity >= 3
     THEN <<PLANT_POWER>> ELSE <<>>)
    \o (IF total >= 50 THEN <<BIG_IMPACT>> ELSE <<>>)

\* variant: the 400 raised inside the try and turned into a 500
UnknownActivityTypeCaught == HTTPException(500, "Unknown activity type")

UnknownActivityType == HTTPException(400, "Unknown activity type")

\* variant: the loop going on to the next badge after a failed insert
RECURSIVE InsertBadgesContinue(_, _, _, _, _, _)
InsertBadgesContinue(coll, created, username, badges, n, fault) ==
    IF badges = <<>>
    THEN [raised |-> FALSE, coll |-> coll, created |-> created, calls |-> n]
    ELSE LET b   == Head(badges)
             ins == create_document(coll, Badge(username, b), n + 1, fault)
         IN IF ins.raised
            THEN [InsertBadgesContinue(coll, created, username, Tail(badges),
                                       n + 1, fault) EXCEPT !.raised = TRUE]
            ELSE InsertBadgesContinue(ins.coll,
                                      Append(created, [_id |-> ins.id] @@ b),
                                      username, Tail(badges), n + 1, fault)

\* variant: the loop awarding a badge only to a user who does not hold it yet
RECURSIVE InsertBadgesOnce(_, _, _, _, _, _)
InsertBadgesOnce(coll, created, username, badges, n, fault) ==
    IF badges = <<>>
    THEN [raised |-> FALSE, coll |-> coll, created |-> created, calls |-> n]
    ELSE LET b   == Head(badges)
             ins == create_document(coll, Badge(username, b), n + 1, fault)
         IN IF \E i \in DOMAIN coll : /\ coll[i].username = username
                                       /\ coll[i].badge_key = b.badge_key
            THEN InsertBadgesOnce(coll, created, username, Tail(badges), n, fault)
            ELSE IF ins.raised
            THEN [raised |-> TRUE, coll |-> coll, created |-> created,
                  calls |-> n + 1]
            ELSE InsertBadgesOnce(ins.coll, Append(created, [_id |-> ins.id] @@ b),
                                  username, Tail(badges), n + 1, fault)

\* the loop `for b in maybe_badges`: n store calls were made before it
RECURSIVE InsertBadges(_, _, _, _, _, _)
InsertBadges(coll, created, username, badges, n, fault) ==
    IF badges = <<>>
    THEN [raised |-> FALSE, coll |-> coll, created |-> created, calls |-> n]
    ELSE LET b   == Head(badges)
             ins == create_document(coll, Badge(username, b), n + 1, fault)
         IN IF ins.raised
            THEN [raised |-> TRUE, coll |-> coll, created |-> created,
                  calls |-> n + 1]
            ELSE InsertBadges(ins.coll, Append(created, [_id |-> ins.id] @@ b),
                              username, Tail(badges), n + 1, fault)

\* log_activity on the collections st = [activity, badge], after n store
\* calls of the same request: the collections it leaves, the store calls
\* made so far, and what it returns or raises
log_activity(st, payload, n, fault) ==
    IF payload.activity_type \notin DOMAIN POINTS_TABLE
    THEN [st |-> st, calls |-> n, response |-> UnknownActivityType]
    ELSE
    LET total == total_points(payload)
        act   == Activity(payload, total)
    IN  IF ~ActivityValid(act)
        THEN [st |-> st, calls |-> n, response |-> Uncaught("ValidationError")]
        ELSE
        LET ins == create_document(st.activity, act, n + 1, fault)
        IN  IF ins.raised
            THEN [st |-> st, calls |-> n + 1,
                  response |-> HTTPException(500, StoreError)]
            ELSE
            LET loop == InsertBadges(st.badge, <<>>, payload.username,
                                     maybe_badges(payload, total), n + 1, fault)
                st2  == [activity |-> ins.coll, badge |-> loop.coll]
            IN  IF loop.raised
                THEN [st |-> st2, calls |-> loop.calls,
                      response |-> HTTPException(500, StoreError)]
                ELSE [st |-> st2, calls |-> loop.calls,
                      response |-> Ok([inserted_id |-> ins.id,
                                       points      |-> total,
                                       badges      |-> loop.created])]

-----------------------------------------------------------------------------
(* The read handlers.  Each makes at most one failing store call, so its   *)
(* fault is 0 (none) or 1.                                                 *)

\* Python truthiness of an optional string
truthy(x) == x # None /\ x # ""

\* d["_id"] = str(d["_id"]) if isinstance(d.get("_id"), ObjectId) else d.get("_id")
RenderId(d) == [d EXCEPT !._id = IF isObjectId(@) THEN str(@) ELSE @]

RenderIds(docs) == [i \in DOMAIN docs |-> RenderId(docs[i])]

root == Ok([message |-> "GreenPoints API running"])

\* the filter built by list_activities and get_badges
Filter(username) == IF truthy(username) THEN [username |-> username] ELSE <<>>

list_activities(coll, username, limit, fault) ==
    IF ~db THEN Ok(<<>>)
    ELSE LET got == get_documents(coll, Filter(username), limit, 1, fault)
         IN IF got.raised THEN Uncaught(StoreError)
            ELSE Ok(RenderIds(got.docs))

get_badges(coll, username, fault) ==
    IF ~db THEN Ok(<<>>)
    ELSE LET got == get_documents(coll, Filter(username), NoLimit, 1, fault)
         IN IF got.raised THEN Uncaught(StoreError)
            ELSE Ok(RenderIds(got.docs))

\* the rows the leaderboard pipeline may yield: group, sort, limit
LeaderboardPipeline(coll, limit) ==
    { LimitStage(s, limit) : s \in SortStage(GroupStage(coll)) }

\* every response leaderboard may give on the activity collection coll
leaderboard(coll, limit, fault) ==
    IF ~db THEN { Ok(<<>>) }
    ELSE IF Raises(1, fault) THEN { HTTPException(500, StoreError) }
    ELSE { Ok([i \in DOMAIN agg |->
                  [username |-> agg[i]._id, points |-> agg[i].points]]) :
           agg \in LeaderboardPipeline(coll, limit) }

ShareText(username, total, count) ==
    username \o " earned " \o ToString(total) \o " Green Points with "
             \o ToString(count) \o " eco actions!"

\* the rows of the summary pipeline, as list(...) of the cursor: match, then group
SummaryPipeline(coll, username) == AnyOrder(GroupStage(MatchStage(coll, username)))

\* every response shareable_summary may give: the aggregate is the first
\* store call and the badge lookup the second
shareable_summary(acts, badges, username, fault) ==
    IF db /\ fault = 1 THEN { HTTPException(500, StoreError) }
    ELSE
    { LET total == IF data # <<>> THEN data[1].points ELSE 0
          count == IF data # <<>> THEN data[1].count ELSE 0
          found == IF db THEN find(badges, [username |-> username]) ELSE <<>>
      IN IF db /\ fault = 2 THEN HTTPException(500, StoreError)
         ELSE Ok([username          |-> username,
                  total_points      |-> total,
                  activities_logged |-> count,
                  badges            |-> RenderIds(found),
                  share_text        |-> ShareText(username, total, count)]) :
      data \in IF db THEN SummaryPipeline(acts, username) ELSE { <<>> } }

-----------------------------------------------------------------------------
(* POST /api/seed *)

\* variant: the demo list without its last item
DemoShort ==
    << [activity_type |-> "public_transport", quantity |-> 2],
       [activity_type |-> "vegan_meal",       quantity |-> 3],
       [activity_type |-> "recycling",        quantity |-> 5] >>

Demo ==
    << [activity_type |-> "public_transport", quantity |-> 2],
       [activity_type |-> "vegan_meal",       quantity |-> 3],
       [activity_type |-> "recycling",        quantity |-> 5],
       [activity_type |-> "bike_ride",        quantity |-> 1] >>

\* the loop `for item in demo`: an exception of log_activity leaves seed as it is
RECURSIVE SeedLoop(_, _, _, _, _, _)
SeedLoop(st, created, username, items, n, fault) ==
    IF items = <<>>
    THEN [st |-> st, response |-> Ok([ok |-> TRUE, created |-> created])]
    ELSE LET item == Head(items)
             res  == log_activity(st,
                                  ActivityCreate(username, item.activity_type,
                                                 item.quantity, None),
                                  n, fault)
         IN IF res.response.kind # "ok"
            THEN [st |-> res.st, response |-> res.response]
            ELSE SeedLoop(res.st, Append(created, res.response.body), username,
                          Tail(items), res.calls, fault)

\* variant: a seed that starts from emptied collections
seed_reset(st, username, fault) ==
    SeedLoop([activity |-> <<>>, badge |-> <<>>], <<>>, username, Demo, 0, fault)

seed(st, username, fault) == SeedLoop(st, <<>>, username, Demo, 0, fault)

-----------------------------------------------------------------------------
(* The handlers as actions *)

Req(op, username, activity_type, quantity, notes, limit, fault) ==
    [op |-> op, username |-> username, activity_type |-> activity_type,
     quantity |-> quantity, notes |-> notes, limit |-> limit, fault |-> fault]

Store == [activity |-> activity, badge |-> badge]

Init ==
    /\ db \in BOOLEAN
    /\ activity = <<>>
    /\ badge = <<>>
    /\ request = Req("none", None, None, 0, None, 0, 0)
    /\ response = Ok(None)

Root ==
    /\ request' = Req("root", None, None, 0, None, 0, 0)
    /\ response' = root
    /\ UNCHANGED <<db, activity, badge>>

LogActivity(username, activity_type, quantity, notes, fault) ==
    LET res == log_activity(Store,
                            ActivityCreate(username, activity_type, quantity, notes),
                            0, fault)
    IN /\ request' = Req("log_activity", username, activity_type, quantity,
                         notes, 0, fault)
       /\ activity' = res.st.activity
       /\ badge' = res.st.badge
       /\ response' = res.response
       /\ UNCHANGED db

Seed(username, fault) ==
    LET res == seed(Store, username, fault)
    IN /\ request' = Req("seed", username, None, 0, None, 0, fault)
       /\ activity' = res.st.activity
       /\ badge' = res.st.badge
       /\ response' = res.response
       /\ UNCHANGED db

Leaderboard(limit, fault) ==
    /\ request' = Req("leaderboard", None, None, 0, None, limit, fault)
    /\ response' \in leaderboard(activity, limit, fault)
    /\ UNCHANGED <<db, activity, badge>>

ListActivities(username, limit, fault) ==
    /\ request' = Req("list_activities", username, None, 0, None, limit, fault)
    /\ response' = list_activities(activity, username, limit, fault)
    /\ UNCHANGED <<db, activity, badge>>

GetBadges(username, fault) ==
    /\ request' = Req("get_badges", username, None, 0, None, 0, fault)
    /\ response' = get_badges(badge, username, fault)
    /\ UNCHANGED <<db, activity, badge>>

ShareableSummary(username, fault) ==
    /\ request' = Req("shareable_summary", username, None, 0, None, 0, fault)
    /\ response' \in shareable_summary(activity, badge, username, fault)
    /\ UNCHANGED <<db, activity, badge>>

-----------------------------------------------------------------------------------------------------------------------------------------------------
(* Inputs and specifications *)

\* activity types and quantities tried by Spec: both badge rules, and one
\* type outside the table
SomeTypes == {"vegan_meal", "tree_planting", "skydiving"}

SomeQuantities == {3}

\* activity types tried by SpecWrites: the table's seven and one outside it
ActivityTypes == DOMAIN POINTS_TABLE \cup {"skydiving"}

Quantities == {-1, 0, 1, 2, 3, 5}

\* log_activity stores the note as given; seed logs without one
Notes == {"proof"}

Limits == {1, LeaderboardLimit}

ListLimits == {1, ActivitiesLimit}

\* the store calls log_activity makes for a payload when none fails
StoreCalls(payload) ==
    IF payload.activity_type \notin DOMAIN POINTS_TABLE THEN 0
    ELSE 1 + Len(maybe_badges(payload, total_points(payload)))

\* the faults the store may inject into a request that makes up to k store
\* calls: none (0), or the call that raises; a store that is not connected
\* fails every call by itself
Faults(k) == IF db THEN 0..k ELSE {0}

Reads ==
    \/ Root
    \/ \E limit \in Limits : \E fault \in Faults(1) : Leaderboard(limit, fault)
    \/ \E username \in Users \cup {None}, limit \in ListLimits :
          \E fault \in Faults(1) : ListActivities(username, limit, fault)
    \/ \E username \in Users \cup {None} :
          \E fault \in Faults(1) : GetBadges(username, fault)
    \/ \E username \in Users :
          \E fault \in Faults(2) : ShareableSummary(username, fault)

\* every handler, on stores built from a few kinds of activity
Next ==
    \/ \E username \in Users, activity_type \in SomeTypes,
          quantity \in SomeQuantities :
          \E fault \in Faults(StoreCalls(ActivityCreate(username, activity_type,
                                                        quantity, None))) :
             /\ Len(activity) < MaxActs \/ activity_type \notin DOMAIN POINTS_TABLE
             /\ LogActivity(username, activity_type, quantity, None, fault)
    \/ \E username \in Users : \E fault \in Faults(5) :
          /\ Len(activity) < MaxActs
          /\ Seed(username, fault)
    \/ Reads

Spec == Init /\ [][Next]_vars

\* the writing handlers alone, over every activity type and quantity
NextWrites ==
    \/ \E username \in Users, activity_type \in ActivityTypes,
          quantity \in Quantities, notes \in Notes :
          \E fault \in Faults(StoreCalls(ActivityCreate(username, activity_type,
                                                        quantity, notes))) :
             /\ Len(activity) < MaxWrites \/ activity_type \notin DOMAIN POINTS_TABLE
             /\ LogActivity(username, activity_type, quantity, notes, fault)
    \/ \E username \in Users : \E fault \in Faults(5) :
          /\ Len(activity) < MaxWrites
          /\ Seed(username, fault)

SpecWrites == Init /\ [][NextWrites]_vars

-----------------------------------------------------------------------------
(* Vocabulary of the properties, stated on the collections themselves *)

TagSet == {"public_transport", "vegan_meal", "recycling", "bike_ride", "refill",
           "thrift", "tree_planting"}

\* points per unit of an activity type
PerUnit(t) ==
    CASE t = "public_transport" -> 15
      [] t = "vegan_meal"       -> 10
      [] t = "recycling"        -> 8
      [] t = "bike_ride"        -> 12
      [] t = "refill"           -> 6
      [] t = "thrift"           -> 14
      [] t = "tree_planting"    -> 50

IsPrefix(s, t) == Len(s) <= Len(t) /\ SubSeq(t, 1, Len(s)) = s

\* the records t holds after those of s
Added(s, t) == SubSeq(t, Len(s) + 1, Len(t))

\* sum of the points of the records of username among acts
TotalOf(acts, username) ==
    LET sum[i \in 0..Len(acts)] ==
            IF i = 0 THEN 0
            ELSE sum[i - 1] + (IF acts[i].username = username
                               THEN acts[i].points ELSE 0)
    IN sum[Len(acts)]

CountOf(docs, username) ==
    Cardinality({ i \in DOMAIN docs : docs[i].username = username })

UsersOf(docs) == { docs[i].username : i \in DOMAIN docs }

\* the badge keys the rules award to an activity of this type, quantity and points
Awarded(activity_type, quantity, points) ==
    (IF activity_type = "vegan_meal" /\ quantity >= 3
     THEN <<"plant_power">> ELSE <<>>)
    \o (IF points >= 50 THEN <<"big_impact">> ELSE <<>>)

KeysOf(docs) == [i \in DOMAIN docs |-> docs[i].badge_key]

LogRequested(r) == r.op = "log_activity" /\ r.activity_type \in TagSet

\* the Activity record a valid log_activity request persists
RecordOf(r) ==
    [username      |-> r.username,
     activity_type |-> r.activity_type,
     quantity      |-> IF r.quantity < 1 THEN 1 ELSE r.quantity,
     points        |-> (IF r.quantity < 1 THEN 1 ELSE r.quantity)
                       * PerUnit(r.activity_type),
     notes         |-> r.notes]

WithoutId(d) == [k \in DOMAIN d \ {"_id"} |-> d[k]]

StorageFailure == HTTPException(500, StoreError)

-----------------------------------------------------------------------------
(* C1 *)

\* C1: log_activity with an activity type outside the seven tags fails with
\* HTTP 400 and leaves the activity and badge collections as they were,
\* whatever the store holds and whatever username, quantity and notes it is given.
C1_UnknownTypeRejected ==
    [][ (request'.op = "log_activity" /\ request'.activity_type \notin TagSet)
        => /\ response'.kind = "HTTPException"
           /\ response'.status = 400
           /\ activity' = activity
           /\ badge' = badge ]_vars

C1_Witness ==
    /\ request.op = "log_activity"
    /\ request.activity_type \notin TagSet
    /\ request.quantity < 1
    /\ response.status = 400
    /\ activity # <<>>

-----------------------------------------------------------------------------
(* C2 *)

\* C2: every persisted Activity record has a type among the seven tags, a
\* quantity of at least 1 and points = quantity * table[type]; a successful
\* log_activity persists the requested quantity clamped to at least 1 and
\* returns the points it stored.
C2_PointsDerived ==
    /\ \A i \in DOMAIN activity :
          /\ activity[i].activity_type \in TagSet
          /\ activity[i].quantity >= 1
          /\ activity[i].points
               = activity[i].quantity * PerUnit(activity[i].activity_type)
    /\ (LogRequested(request) /\ response.kind = "ok")
       => /\ activity # <<>>
          /\ WithoutId(activity[Len(activity)]) = RecordOf(request)
          /\ response.body.points = activity[Len(activity)].points

C2_Witness ==
    /\ LogRequested(request)
    /\ request.quantity < 0
    /\ response.kind = "ok"
    /\ activity[Len(activity)].quantity = 1
    /\ response.body.points = PerUnit(request.activity_type)

-----------------------------------------------------------------------------
(* C3 *)

\* C3: a successful log_activity returns, and appends to the badge collection
\* under the caller's username, exactly plant_power (iff vegan_meal with
\* quantity >= 3) followed by big_impact (iff the activity's points >= 50),
\* and nothing else.
C3_BadgesAwarded ==
    [][ (LogRequested(request') /\ response'.kind = "ok")
        => LET keys == Awarded(request'.activity_type, request'.quantity,
                               response'.body.points)
               new  == Added(badge, badge')
           IN /\ IsPrefix(badge, badge')
              /\ KeysOf(new) = keys
              /\ \A i \in DOMAIN new : new[i].username = request'.username
              /\ KeysOf(response'.body.badges) = keys
              /\ (request'.activity_type = "vegan_meal" /\ request'.quantity = 3)
                 => keys = <<"plant_power">> /\ response'.body.points = 30
              /\ (request'.activity_type = "tree_planting" /\ request'.quantity = 1)
                 => keys = <<"big_impact">> /\ response'.body.points = 50 ]_vars

C3_Witness ==
    /\ LogRequested(request)
    /\ request.activity_type = "vegan_meal"
    /\ request.quantity = 5
    /\ response.kind = "ok"
    /\ KeysOf(response.body.badges) = <<"plant_power", "big_impact">>
    /\ KeysOf(badge) = <<"plant_power", "big_impact">>

-----------------------------------------------------------------------------
(* C7 *)

\* C7: in log_activity a failing store insert ends the call with HTTP 500 and
\* nothing is rolled back: when the activity insert fails neither collection
\* changes; when the insert of the k-th badge fails the Activity record and
\* the k-1 badges inserted before it stay, and no later badge is inserted.
C7_NoRollback ==
    [][ (LogRequested(request') /\ (request'.fault >= 1 \/ ~db))
        => LET keys == Awarded(request'.activity_type, request'.quantity,
                               RecordOf(request').points)
               k    == request'.fault - 1
           IN /\ response' = StorageFailure
              /\ (k <= 0) => activity' = activity /\ badge' = badge
              /\ (k >= 1) =>
                   /\ k <= Len(keys)
                   /\ IsPrefix(activity, activity')
                   /\ Len(activity') = Len(activity) + 1
                   /\ WithoutId(activity'[Len(activity')]) = RecordOf(request')
                   /\ IsPrefix(badge, badge')
                   /\ KeysOf(Added(badge, badge')) = SubSeq(keys, 1, k - 1) ]_vars

\* the second badge's insert failed: the activity and the first badge stay
C7_Witness ==
    /\ LogRequested(request)
    /\ request.fault = 3
    /\ response = StorageFailure
    /\ Len(activity) = 1
    /\ KeysOf(badge) = <<"plant_power">>

-----------------------------------------------------------------------------
(* C8 *)

\* C8: every handler reports a store call's exception as HTTP 500 carrying
\* its message, and HTTP 400 for an unknown activity type is the only other
\* error a handler produces: no exception leaves a handler uncaught.
C8_StoreErrorsReported ==
    /\ response.kind \in {"ok", "HTTPException"}
    /\ response.kind = "HTTPException"
       => \/ response = StorageFailure
          \/ response.status = 400 /\ request.op = "log_activity"
    /\ (db /\ request.fault >= 1) => response = StorageFailure

\* the handlers that catch: log_activity, leaderboard, shareable_summary and
\* seed report a failing store call as HTTP 500
C8_CaughtWhereWrapped ==
    (request.op \in {"log_activity", "leaderboard", "shareable_summary", "seed"}
       /\ db /\ request.fault >= 1)
    => response = StorageFailure

-----------------------------------------------------------------------------
(* C4 *)

\* C4: leaderboard(limit) returns at most limit entries, at most one per
\* username, each with the sum of the points of that username's Activity
\* records, by non-increasing points, and no username left out has a
\* strictly higher total than one returned.
C4_Leaderboard ==
    (request.op = "leaderboard" /\ response.kind = "ok")
    => LET board == response.body
       IN /\ Len(board) <= request.limit
          /\ \A i, j \in DOMAIN board :
                i # j => board[i].username # board[j].username
          /\ \A i \in DOMAIN board :
                /\ board[i].username \in UsersOf(activity)
                /\ board[i].points = TotalOf(activity, board[i].username)
          /\ \A i, j \in DOMAIN board : i < j => board[i].points >= board[j].points
          /\ \A u \in UsersOf(activity) \ UsersOf(board) :
                \A i \in DOMAIN board : TotalOf(activity, u) <= board[i].points

\* a leaderboard cut to one entry while two users with different totals are stored
C4_Witness ==
    /\ request.op = "leaderboard"
    /\ request.limit = 1
    /\ response.kind = "ok"
    /\ Len(response.body) = 1
    /\ \E u \in UsersOf(activity) :
          TotalOf(activity, u) < response.body[1].points

-----------------------------------------------------------------------------
(* C5 *)

\* C5: shareable_summary(username) returns the sum of the points and the
\* number of that user's Activity records and all of that user's Badge
\* records (zero, zero and none for a user without activities), and a share
\* text made of exactly those two numbers.
C5_Summary ==
    (request.op = "shareable_summary" /\ response.kind = "ok")
    => LET u    == request.username
           body == response.body
           held == SelectSeq(badge, LAMBDA b : b.username = u)
       IN /\ body.username = u
          /\ body.total_points = TotalOf(activity, u)
          /\ body.activities_logged = CountOf(activity, u)
          /\ Len(body.badges) = Len(held)
          /\ \A i \in DOMAIN held : WithoutId(body.badges[i]) = WithoutId(held[i])
          /\ (u \notin UsersOf(activity))
             => /\ body.total_points = 0
                /\ body.activities_logged = 0
                /\ body.badges = <<>>
          /\ body.share_text
               = u \o " earned " \o ToString(body.total_points)
                   \o " Green Points with " \o ToString(body.activities_logged)
                   \o " eco actions!"

\* a summary of a user with activities and a badge while another user has activities too
C5_Witness ==
    /\ request.op = "shareable_summary"
    /\ response.kind = "ok"
    /\ response.body.activities_logged >= 2
    /\ response.body.total_points > 0
    /\ response.body.badges # <<>>
    /\ UsersOf(activity) \ {request.username} # {}

\* a summary of a user without activities while the store holds others'
C5_WitnessNoActivities ==
    /\ request.op = "shareable_summary"
    /\ response.kind = "ok"
    /\ response.body.activities_logged = 0
    /\ activity # <<>>

-----------------------------------------------------------------------------
(* C6 *)

\* the call just served was a successful seed of a username that had no
\* activities before it: all of its records are the ones this seed created
SeededFresh ==
    /\ request.op = "seed"
    /\ response.kind = "ok"
    /\ CountOf(activity, request.username) = Len(response.body.created)

Listed(board, username, points) ==
    \E i \in DOMAIN board : board[i] = [username |-> username, points |-> points]

\* C6 as claimed: seed for a fresh username and then leaderboard lists that
\* username with 112 points, whatever the other users' activities.
C6_SeededAlwaysListed ==
    [][ (SeededFresh /\ request'.op = "leaderboard" /\ response'.kind = "ok")
        => Listed(response'.body, request.username, 112) ]_vars

\* C6, amended: a successful seed of a fresh username gives it 112 points; a
\* leaderboard(limit) that follows never lists it with other points, and
\* lists it whenever fewer than limit other usernames total 112 or more.
C6_SeededListedWithinLimit ==
    [][ SeededFresh
        => /\ TotalOf(activity, request.username) = 112
           /\ (request'.op = "leaderboard" /\ response'.kind = "ok")
              => /\ \A i \in DOMAIN response'.body :
                       response'.body[i].username = request.username
                       => response'.body[i].points = 112
                 /\ Cardinality({ u \in UsersOf(activity) \ {request.username} :
                                    TotalOf(activity, u) >= 112 }) < request'.limit
                    => Listed(response'.body, request.username, 112) ]_vars

\* the seeded username listed with 112 points beside another user
C6_Witness ==
    /\ request.op = "leaderboard"
    /\ response.kind = "ok"
    /\ \E u \in UsersOf(activity) :
          /\ CountOf(activity, u) = 4
          /\ Listed(response.body, u, 112)
          /\ UsersOf(activity) \ {u} # {}

-----------------------------------------------------------------------------
(* C9 *)

\* C9: no handler modifies or removes a persisted record: every step leaves
\* each collection with its former records in place, only log_activity and
\* seed add any, the read handlers leave both collections as they were, and
\* no user's total ever decreases.
C9_CollectionsOnlyGrow ==
    [][ /\ IsPrefix(activity, activity')
        /\ IsPrefix(badge, badge')
        /\ request'.op \notin {"log_activity", "seed"}
           => activity' = activity /\ badge' = badge
        /\ \A u \in Users : TotalOf(activity', u) >= TotalOf(activity, u) ]_vars

\* a seed served while the collections already held another call's records
C9_Witness ==
    /\ request.op = "seed"
    /\ Len(activity) >= 3
    /\ activity[1].activity_type = "tree_planting"
    /\ badge # <<>>
    /\ badge[1].badge_key = "big_impact"

-----------------------------------------------------------------------------
(* C10 *)

\* the records of username among acts that satisfy the rule of a badge key
Qualifying(acts, username, key) ==
    { i \in DOMAIN acts :
        /\ acts[i].username = username
        /\ \E j \in DOMAIN Awarded(acts[i].activity_type, acts[i].quantity,
                                   acts[i].points) :
              Awarded(acts[i].activity_type, acts[i].quantity,
                      acts[i].points)[j] = key }

Holding(badges, username, key) ==
    { i \in DOMAIN badges :
        badges[i].username = username /\ badges[i].badge_key = key }

BadgeKeys == {"plant_power", "big_impact"}

\* C10 as claimed: a user holds as many Badge records of a key as that user
\* has logged activities satisfying the key's rule.
C10_BadgePerQualifyingActivity ==
    \A u \in Users, key \in BadgeKeys :
        Cardinality(Holding(badge, u, key))
          = Cardinality(Qualifying(activity, u, key))

\* C10, amended: badges are not deduplicated: a successful log_activity adds
\* one Badge record for each rule its activity satisfies, whatever badges the
\* user holds already; a user never holds more Badge records of a key than
\* qualifying activities (fewer when a store failure cut a call short).
C10_NoDeduplication ==
    [][ /\ \A u \in Users, key \in BadgeKeys :
              Cardinality(Holding(badge', u, key))
                <= Cardinality(Qualifying(activity', u, key))
        /\ (LogRequested(request') /\ response'.kind = "ok")
           => \A key \in BadgeKeys :
                 Cardinality(Holding(badge', request'.username, key))
                   = Cardinality(Holding(badge, request'.username, key))
                     + Cardinality(Qualifying(Added(activity, activity'),
                                              request'.username, key)) ]_vars

\* a second qualifying call of a user who already holds the badge
C10_Witness ==
    /\ LogRequested(request)
    /\ response.kind = "ok"
    /\ Cardinality(Holding(badge, request.username, "big_impact")) >= 2

====
